---- MODULE Spec2Model ----
(***************************************************************************)
(* The conversation controller of client/pages/index.tsx: the React state  *)
(* of the Index component, the mount effect (initializeStory), the input   *)
(* onChange handler, the form handler (handleSubmit) and the continuations *)
(* that run when a fetch settles.                                          *)
(*                                                                         *)
(* JavaScript values.  A string is a sequence of one-character strings, so *)
(* that String.prototype.trim is computed and not assumed.  A value that   *)
(* may be null or absent is Null (the empty tuple) or Some(v) (the         *)
(* one-element tuple).  Error messages are TLA+ strings; they live only in *)
(* the error slot and in a rejection's message.                            *)
(***************************************************************************)
EXTENDS Integers, Sequences, FiniteSets, TLC

VARIABLES messages, inputText, isLoading, error, sessionId, character,
          mounted, net, event

vars == <<messages, inputText, isLoading, error, sessionId, character,
          mounted, net, event>>

(* The React state alone, without the input box. *)
stores == <<messages, isLoading, error, sessionId, character>>

-----------------------------------------------------------------------------
(* Bounds *)

\* fetch calls issued in one run (the bootstrap and MaxRequests - 1 submits)
MaxRequests == 3

-----------------------------------------------------------------------------
(* Values *)

Null == <<>>

Some(v) == <<v>>

\* characters String.prototype.trim removes (the ones the inputs use)
Whitespace == {" ", "\t", "\n"}

RECURSIVE TrimStart(_)
TrimStart(s) ==
    IF s /= <<>> /\ Head(s) \in Whitespace THEN TrimStart(Tail(s)) ELSE s

RECURSIVE TrimEnd(_)
TrimEnd(s) ==
    IF s /= <<>> /\ s[Len(s)] \in Whitespace
    THEN TrimEnd(SubSeq(s, 1, Len(s) - 1))
    ELSE s

Trim(s) == TrimEnd(TrimStart(s))

\* JavaScript truthiness of a string: the empty string is falsy
TruthyString(s) == s /= <<>>

\* variant: the test is `!= null`, which lets the empty string through
TruthyTextNonNull(opt) == opt /= Null

\* truthiness of data.generated_text: absent/null and "" are falsy
TruthyText(opt) == opt /= Null /\ TruthyString(opt[1])

\* truthiness of data.session_id (session ids are TLA+ strings)
TruthySession(opt) == opt /= Null /\ opt[1] /= ""

\* truthiness of data.character: an object is truthy, null/absent is not
TruthyCharacter(opt) == opt /= Null

BootPrompt ==
    <<"I", " ", "w", "a", "n", "t", " ", "t", "o", " ", "s", "t", "a", "r",
      "t", " ", "a", " ", "n", "e", "w", " ", "a", "d", "v", "e", "n", "t",
      "u", "r", "e", " ", "s", "t", "o", "r", "y", ".">>

Apology ==
    <<"I", " ", "a", "p", "o", "l", "o", "g", "i", "z", "e", ",", " ", "b",
      "u", "t", " ", "I", " ", "e", "n", "c", "o", "u", "n", "t", "e", "r",
      "e", "d", " ", "a", "n", " ", "e", "r", "r", "o", "r", ".", " ", "P",
      "l", "e", "a", "s", "e", " ", "t", "r", "y", " ", "a", "g", "a", "i",
      "n", ".">>

StoryMessage(role, content) == [role |-> role, content |-> content]

Character(name, class, goals, location) ==
    [name |-> name, class |-> class, goals |-> goals, inventory |-> <<>>,
     relationships |-> <<>>, story_progress |-> Len(goals),
     current_location |-> location, active_quests |-> goals,
     completed_quests |-> <<>>]

-----------------------------------------------------------------------------
(* The environment: what the user types and what the backend answers *)

\* texts the user can put in the input box: "", "   ", "\t", " go "
Texts == {<<>>, <<" ", " ", " ">>, <<"\t">>, <<" ", "g", "o", " ">>}

BobSword == Character(Some("Bob"), Null, <<"find sword">>, Null)

BobDone == Character(Some("Bob"), Null, <<>>, Some("Forest"))

Rin == Character(Some("Rin"), Some("Rogue"), <<>>, Some("Forest"))

TextForest == <<"F", "o", "r", "e", "s", "t", ".">>

TextPath == <<"P", "a", "t", "h", ".">>

\* how one fetch settles.  rejected: the fetch promise rejects with `thrown`
\* (isError: it is an Error carrying `message`); otherwise a response with
\* `status` whose JSON body has the three optional fields.
Outcome(rejected, isError, message, status, text, session, char) ==
    [rejected |-> rejected, isError |-> isError, message |-> message,
     status |-> status, generated_text |-> text, session_id |-> session,
     character |-> char]

Reply(status, text, session, char) ==
    Outcome(FALSE, FALSE, "", status, text, session, char)

Outcomes ==
    { Reply(200, Some(TextForest), Some("s1"), Some(BobSword)),
      Reply(200, Some(TextPath), Some("s2"), Some(BobDone)),
      Reply(200, Some(TextPath), Null, Null),
      Reply(200, Null, Some("s2"), Some(Rin)),
      Reply(200, Some(<<>>), Some("s1"), Null),
      Reply(500, Some(TextPath), Some("s2"), Some(Rin)),
      Outcome(TRUE, TRUE, "Failed to fetch", 0, Null, Null, Null),
      Outcome(TRUE, FALSE, "", 0, Null, Null, Null) }

\* response.ok
Ok(status) == status >= 200 /\ status <= 299

\* `HTTP error! status: ${response.status}`
HttpErrorMessage(status) == "HTTP error! status: " \o ToString(status)

NoTextMessage == "No generated text in response"

\* Where the try block of either operation ends for outcome o: "ok" when the
\* success branch ran, otherwise the value the catch block receives.
Thrown(o) ==
    IF o.rejected THEN [isError |-> o.isError, message |-> o.message]
    ELSE IF ~Ok(o.status)
    THEN [isError |-> TRUE, message |-> HttpErrorMessage(o.status)]
    ELSE IF ~TruthyText(o.generated_text)
    THEN [isError |-> TRUE, message |-> NoTextMessage]
    ELSE Null

Succeeds(o) == Thrown(o) = Null

\* err instanceof Error ? err.message : fallback
ErrorText(err, fallback) == IF err.isError THEN err.message ELSE fallback

-----------------------------------------------------------------------------
(* State *)

\* requests whose promise has not settled
Pending == {i \in 1..Len(net) : net[i].reply = Null}

Request(op, prompt, session) ==
    [op |-> op, body |-> [prompt |-> prompt, session_id |-> session],
     before |-> messages, reply |-> Null, after |-> Null]

Init ==
    /\ messages = <<>>
    /\ inputText = <<>>
    /\ isLoading = FALSE
    /\ error = Null
    /\ sessionId = Null
    /\ character = Null
    /\ mounted = FALSE
    /\ net = <<>>
    /\ event = "render"

-----------------------------------------------------------------------------
(* Operations *)

\* variant: the bootstrap forgets setIsLoading(true)
InitializeStoryNotBusy ==
    /\ ~mounted
    /\ mounted' = TRUE
    /\ event' = "mount"
    /\ error' = Null
    /\ net' = Append(net, Request("initializeStory", BootPrompt, sessionId))
    /\ UNCHANGED <<messages, inputText, isLoading, sessionId, character>>

\* useEffect(() => { initializeStory() }, []): runs once, after the first
\* render, up to the await of fetch.
InitializeStory ==
    /\ ~mounted
    /\ mounted' = TRUE
    /\ event' = "mount"
    /\ isLoading' = TRUE
    /\ error' = Null
    /\ net' = Append(net, Request("initializeStory", BootPrompt, sessionId))
    /\ UNCHANGED <<messages, inputText, sessionId, character>>

\* onChange={(e) => setInputText(e.target.value)}.  React runs a render's
\* passive effects before any later render, so the closure that sees a typed
\* text is created after the mount effect has run.
OnChange(v) ==
    /\ mounted
    /\ event' = "onChange"
    /\ inputText' = v
    /\ UNCHANGED <<messages, isLoading, error, sessionId, character, mounted,
                   net>>

\* variant: the guard forgets the busy flag
SubmitRejectedIgnoringBusy == Trim(inputText) = <<>>

\* variant: the guard forgets to trim
SubmitRejectedUntrimmed == inputText = <<>> \/ isLoading

SubmitRejected == Trim(inputText) = <<>> \/ isLoading

\* variant: the request carries the trimmed text, the transcript the typed one
HandleSubmitTrimmedPrompt ==
    /\ event' = "handleSubmit"
    /\ IF SubmitRejected
       THEN UNCHANGED <<messages, inputText, isLoading, error, sessionId,
                        character, mounted, net>>
       ELSE /\ Len(net) < MaxRequests
            /\ isLoading' = TRUE
            /\ error' = Null
            /\ inputText' = <<>>
            /\ messages' = Append(messages, StoryMessage("user", inputText))
            /\ net' = Append(net, Request("handleSubmit", Trim(inputText),
                                          sessionId))
            /\ UNCHANGED <<sessionId, character, mounted>>

\* variant: handleSubmit forgets setError(null)
HandleSubmitKeepingError ==
    /\ event' = "handleSubmit"
    /\ IF SubmitRejected
       THEN UNCHANGED <<messages, inputText, isLoading, error, sessionId,
                        character, mounted, net>>
       ELSE /\ Len(net) < MaxRequests
            /\ isLoading' = TRUE
            /\ inputText' = <<>>
            /\ messages' = Append(messages, StoryMessage("user", inputText))
            /\ net' = Append(net, Request("handleSubmit", inputText, sessionId))
            /\ UNCHANGED <<error, sessionId, character, mounted>>

\* handleSubmit up to the await of fetch
HandleSubmit ==
    /\ event' = "handleSubmit"
    /\ IF SubmitRejected
       THEN UNCHANGED <<messages, inputText, isLoading, error, sessionId,
                        character, mounted, net>>
       ELSE /\ Len(net) < MaxRequests
            /\ isLoading' = TRUE
            /\ error' = Null
            /\ inputText' = <<>>
            /\ messages' = Append(messages, StoryMessage("user", inputText))
            /\ net' = Append(net, Request("handleSubmit", inputText, sessionId))
            /\ UNCHANGED <<sessionId, character, mounted>>

\* variant: the success branch forgets setSessionId
InitializeStoryDoneNoSession(o) ==
    /\ IF Succeeds(o)
       THEN /\ messages' = <<StoryMessage("assistant", o.generated_text[1])>>
            /\ character' = IF TruthyCharacter(o.character)
                            THEN o.character ELSE character
            /\ UNCHANGED <<sessionId, error>>
       ELSE /\ error' = Some(ErrorText(Thrown(o), "Failed to start story"))
            /\ UNCHANGED <<messages, sessionId, character>>
    /\ isLoading' = FALSE

\* variant: the success branch forgets setCharacter
InitializeStoryDoneNoCharacter(o) ==
    /\ IF Succeeds(o)
       THEN /\ messages' = <<StoryMessage("assistant", o.generated_text[1])>>
            /\ sessionId' = IF TruthySession(o.session_id)
                            THEN o.session_id ELSE sessionId
            /\ UNCHANGED <<character, error>>
       ELSE /\ error' = Some(ErrorText(Thrown(o), "Failed to start story"))
            /\ UNCHANGED <<messages, sessionId, character>>
    /\ isLoading' = FALSE

\* variant: the catch block also narrates the failure, as handleSubmit's does
InitializeStoryDoneApologizing(o) ==
    /\ IF Succeeds(o)
       THEN /\ messages' = <<StoryMessage("assistant", o.generated_text[1])>>
            /\ sessionId' = IF TruthySession(o.session_id)
                            THEN o.session_id ELSE sessionId
            /\ character' = IF TruthyCharacter(o.character)
                            THEN o.character ELSE character
            /\ error' = error
       ELSE /\ error' = Some(ErrorText(Thrown(o), "Failed to start story"))
            /\ messages' = Append(messages, StoryMessage("assistant", Apology))
            /\ UNCHANGED <<sessionId, character>>
    /\ isLoading' = FALSE

\* variant: setIsLoading(false) sits at the end of the try block, not in finally
InitializeStoryDoneStuckBusy(o) ==
    /\ IF Succeeds(o)
       THEN /\ messages' = <<StoryMessage("assistant", o.generated_text[1])>>
            /\ sessionId' = IF TruthySession(o.session_id)
                            THEN o.session_id ELSE sessionId
            /\ character' = IF TruthyCharacter(o.character)
                            THEN o.character ELSE character
            /\ error' = error
            /\ isLoading' = FALSE
       ELSE /\ error' = Some(ErrorText(Thrown(o), "Failed to start story"))
            /\ UNCHANGED <<messages, sessionId, character, isLoading>>

\* the rest of initializeStory, run when its fetch settles with o
InitializeStoryDone(o) ==
    /\ IF Succeeds(o)
       THEN /\ messages' = <<StoryMessage("assistant", o.generated_text[1])>>
            /\ sessionId' = IF TruthySession(o.session_id)
                            THEN o.session_id ELSE sessionId
            /\ character' = IF TruthyCharacter(o.character)
                            THEN o.character ELSE character
            /\ error' = error
       ELSE /\ error' = Some(ErrorText(Thrown(o), "Failed to start story"))
            /\ UNCHANGED <<messages, sessionId, character>>
    /\ isLoading' = FALSE

\* variant: the success branch replaces the transcript, as the bootstrap does
HandleSubmitDoneReplacing(o) ==
    /\ IF Succeeds(o)
       THEN /\ messages' = <<StoryMessage("assistant", o.generated_text[1])>>
            /\ character' = IF TruthyCharacter(o.character)
                            THEN o.character ELSE character
            /\ error' = error
       ELSE /\ error' = Some(ErrorText(Thrown(o), "Failed to send message"))
            /\ messages' = Append(messages, StoryMessage("assistant", Apology))
            /\ character' = character
    /\ sessionId' = sessionId
    /\ isLoading' = FALSE

\* variant: the catch block only sets the error, as the bootstrap's does
HandleSubmitDoneSilent(o) ==
    /\ IF Succeeds(o)
       THEN /\ messages' = Append(messages,
                                  StoryMessage("assistant", o.generated_text[1]))
            /\ character' = IF TruthyCharacter(o.character)
                            THEN o.character ELSE character
            /\ error' = error
       ELSE /\ error' = Some(ErrorText(Thrown(o), "Failed to send message"))
            /\ UNCHANGED <<messages, character>>
    /\ sessionId' = sessionId
    /\ isLoading' = FALSE

\* variant: the success branch merges the new goals into the old character
HandleSubmitDoneMerging(o) ==
    /\ IF Succeeds(o)
       THEN /\ messages' = Append(messages,
                                  StoryMessage("assistant", o.generated_text[1]))
            /\ character' =
                   IF ~TruthyCharacter(o.character) THEN character
                   ELSE IF character = Null THEN o.character
                   ELSE Some([o.character[1] EXCEPT
                                !.goals = character[1].goals \o @])
            /\ error' = error
       ELSE /\ error' = Some(ErrorText(Thrown(o), "Failed to send message"))
            /\ messages' = Append(messages, StoryMessage("assistant", Apology))
            /\ character' = character
    /\ sessionId' = sessionId
    /\ isLoading' = FALSE

\* variant: the success branch also captures the session, as the bootstrap does
HandleSubmitDoneCapturing(o) ==
    /\ IF Succeeds(o)
       THEN /\ messages' = Append(messages,
                                  StoryMessage("assistant", o.generated_text[1]))
            /\ character' = IF TruthyCharacter(o.character)
                            THEN o.character ELSE character
            /\ sessionId' = IF TruthySession(o.session_id)
                            THEN o.session_id ELSE sessionId
            /\ error' = error
       ELSE /\ error' = Some(ErrorText(Thrown(o), "Failed to send message"))
            /\ messages' = Append(messages, StoryMessage("assistant", Apology))
            /\ UNCHANGED <<character, sessionId>>
    /\ isLoading' = FALSE

\* the rest of handleSubmit, run when its fetch settles with o
HandleSubmitDone(o) ==
    /\ IF Succeeds(o)
       THEN /\ messages' = Append(messages,
                                  StoryMessage("assistant", o.generated_text[1]))
            /\ character' = IF TruthyCharacter(o.character)
                            THEN o.character ELSE character
            /\ error' = error
       ELSE /\ error' = Some(ErrorText(Thrown(o), "Failed to send message"))
            /\ messages' = Append(messages, StoryMessage("assistant", Apology))
            /\ character' = character
    /\ sessionId' = sessionId
    /\ isLoading' = FALSE

\* variant: a failed request is sent again
SettleRetrying(i, o) ==
    /\ i \in Pending
    /\ event' = "settle"
    /\ IF net[i].op = "initializeStory"
       THEN InitializeStoryDone(o)
       ELSE HandleSubmitDone(o)
    /\ net' = LET done == [net EXCEPT ![i].reply = Some(o),
                                      ![i].after = Some(messages')]
              IN  IF ~Succeeds(o) /\ Len(net) < MaxRequests
                  THEN Append(done, [net[i] EXCEPT !.before = messages'])
                  ELSE done
    /\ UNCHANGED <<inputText, mounted>>

\* the fetch of request i settles with outcome o and its continuation runs
Settle(i, o) ==
    /\ i \in Pending
    /\ event' = "settle"
    /\ IF net[i].op = "initializeStory"
       THEN InitializeStoryDone(o)
       ELSE HandleSubmitDone(o)
    /\ net' = [net EXCEPT ![i].reply = Some(o), ![i].after = Some(messages')]
    /\ UNCHANGED <<inputText, mounted>>

Next ==
    \/ InitializeStory
    \/ \E v \in Texts : OnChange(v)
    \/ HandleSubmit
    \/ \E i \in 1..MaxRequests, o \in Outcomes : Settle(i, o)

Spec == Init /\ [][Next]_vars

\* the backend answers every request: each fetch settles, with success or
\* with failure
FairSpec ==
    Spec /\ WF_vars(\E i \in 1..MaxRequests, o \in Outcomes : Settle(i, o))

-----------------------------------------------------------------------------
(* Properties *)

\* request i has settled
Settled(i) == net[i].reply /= Null

\* the outcome request i settled with
OutcomeOf(i) == net[i].reply[1]

\* all whitespace, hence empty after trimming
Blank(s) == \A k \in 1..Len(s) : s[k] \in Whitespace

\* the submits are requests 2..Len(net); all of them completed successfully
AllSubmitsSucceeded ==
    \A i \in 2..Len(net) : Settled(i) /\ Succeeds(OutcomeOf(i))

\* C1: in every reachable state at most one HTTP request (bootstrap or
\* submit) is outstanding, and no step taken while a request is outstanding
\* sends another one: a submit attempted then is rejected, and nothing is
\* queued to be sent when the outstanding request settles.
C1_AtMostOneOutstanding ==
    /\ [](Cardinality(Pending) <= 1)
    /\ [][Pending /= {} => Len(net') = Len(net)]_vars

\* a submit with a non-blank text was attempted while a submit request was
\* outstanding
C1_Witness ==
    /\ event = "handleSubmit"
    /\ Cardinality(Pending) = 1
    /\ Len(net) = 2
    /\ ~Blank(inputText)

\* C2 (P4, busy exclusion): a handleSubmit invoked while busy = true, with
\* any text, sends no request and leaves the transcript, the session, the
\* character, the error, the busy flag and the input text unchanged.
C2_BusyExclusion ==
    [][isLoading /\ event' = "handleSubmit"
         => UNCHANGED <<stores, net, inputText>>]_vars

\* a non-blank submit was attempted while the bootstrap was in progress
C2_Witness ==
    /\ event = "handleSubmit"
    /\ isLoading
    /\ inputText = <<" ", "g", "o", " ">>
    /\ Len(net) = 1

\* C3 (P1, monotonic transcript): after a bootstrap followed by N accepted
\* submits that all completed successfully, the transcript has the turns
\* present after the bootstrap plus 2N, the k-th call having contributed the
\* user turn with its text followed by the assistant turn with the reply.
C3_MonotonicTranscript ==
    (Len(net) >= 1 /\ Settled(1) /\ AllSubmitsSucceeded)
        => LET base == Len(net[1].after[1])
               N == Len(net) - 1
           IN  /\ Len(messages) = base + 2 * N
               /\ \A k \in 1..N :
                    /\ messages[base + 2 * k - 1] =
                           StoryMessage("user", net[k + 1].body.prompt)
                    /\ messages[base + 2 * k] =
                           StoryMessage("assistant",
                                        OutcomeOf(k + 1).generated_text[1])

\* two successful submits after a successful bootstrap
C3_Witness ==
    /\ Len(net) = 3
    /\ Pending = {}
    /\ Succeeds(OutcomeOf(1))
    /\ AllSubmitsSucceeded
    /\ Len(messages) = 5

\* C4 (P2, Scenario D): when the latest accepted submit(t) has failed
\* (rejected fetch, non-2xx status, or 2xx without generated text), the
\* transcript is the transcript before the call plus the user turn t and the
\* apology turn, the error is non-null (for status 500 it is
\* "HTTP error! status: 500") and busy is false.
C4_OptimismUnderFailure ==
    (Len(net) >= 2 /\ Pending = {} /\ ~Succeeds(OutcomeOf(Len(net))))
        => LET call == net[Len(net)]
               o == call.reply[1]
           IN  /\ messages = call.before \o
                      <<StoryMessage("user", call.body.prompt),
                        StoryMessage("assistant", Apology)>>
               /\ call.after = Some(messages)
               /\ error /= Null
               /\ (~o.rejected /\ o.status = 500)
                      => error = Some("HTTP error! status: 500")
               /\ ~isLoading

\* submit(" go ") answered with HTTP 500 after a successful bootstrap
C4_Witness ==
    /\ Len(net) = 2
    /\ Pending = {}
    /\ Succeeds(OutcomeOf(1))
    /\ ~OutcomeOf(2).rejected
    /\ OutcomeOf(2).status = 500
    /\ messages[2] = StoryMessage("user", <<" ", "g", "o", " ">>)
    /\ messages[3].content = Apology

\* the bootstrap completed successfully and its response carried session s
BootReturnedSession(s) ==
    /\ Len(net) >= 1
    /\ Settled(1)
    /\ Succeeds(OutcomeOf(1))
    /\ OutcomeOf(1).session_id = Some(s)

\* C5 (P3, session stickiness): once the bootstrap has returned session id
\* s, every later request carries session_id = s, whatever the submissions
\* in between did (succeeded, failed, or returned another session id).
C5_SessionStickiness ==
    \A s \in {"s1", "s2"} :
        BootReturnedSession(s)
            => \A j \in 2..Len(net) : net[j].body.session_id = Some(s)

\* bootstrap returned s1, a submit's response returned s2, and the submit
\* after it still carried s1
C5_Witness ==
    /\ Len(net) = 3
    /\ BootReturnedSession("s1")
    /\ Settled(2)
    /\ Succeeds(OutcomeOf(2))
    /\ OutcomeOf(2).session_id = Some("s2")
    /\ net[3].body.session_id = Some("s1")

\* request i completed successfully with a response that carried a session id
SuppliedSession(i) ==
    /\ Settled(i)
    /\ Succeeds(OutcomeOf(i))
    /\ OutcomeOf(i).session_id /= Null

\* C6 as stated: the session is null at startup and, after any successful
\* response (bootstrap or submit) in which the backend supplied a session
\* id, every later request carries a non-null session_id.
C6_SessionEchoedAfterAnyResponse ==
    /\ (net = <<>> => sessionId = Null)
    /\ \A i \in 1..Len(net) : \A j \in (i + 1)..Len(net) :
           SuppliedSession(i) => net[j].body.session_id /= Null

\* C6 as amended: the session is null at startup, it is set only by a
\* successful bootstrap response that supplies one, and after such a
\* response every later request carries a non-null session_id.
C6_SessionEchoedAfterBootstrap ==
    /\ (net = <<>> => sessionId = Null)
    /\ (sessionId /= Null => Len(net) >= 1 /\ SuppliedSession(1))
    /\ \A j \in 2..Len(net) :
           SuppliedSession(1) => net[j].body.session_id /= Null

\* the bootstrap supplied a session, the first submit failed, and the second
\* submit still carried a session
C6_Witness ==
    /\ Len(net) = 3
    /\ SuppliedSession(1)
    /\ Settled(2)
    /\ ~Succeeds(OutcomeOf(2))
    /\ net[3].body.session_id /= Null

\* the character carried by the most recent of the first n requests whose
\* response was applied (it succeeded) and contained a character
RECURSIVE LastAppliedCharacter(_)
LastAppliedCharacter(n) ==
    IF n = 0 THEN Null
    ELSE IF Settled(n) /\ Succeeds(OutcomeOf(n))
            /\ OutcomeOf(n).character /= Null
    THEN OutcomeOf(n).character
    ELSE LastAppliedCharacter(n - 1)

\* C7 (P5, character replacement): the stored character is, wholesale, the
\* character of the most recent successfully applied response that contained
\* one, and null if there has been none; a successful response without a
\* character leaves it unchanged.
C7_CharacterReplacement == character = LastAppliedCharacter(Len(net))

\* a character with goals was replaced by one with an empty goals list, and a
\* later successful response without a character left it in place
C7_Witness ==
    /\ Len(net) = 3
    /\ Pending = {}
    /\ Succeeds(OutcomeOf(1))
    /\ OutcomeOf(1).character = Some(BobSword)
    /\ Succeeds(OutcomeOf(2))
    /\ OutcomeOf(2).character = Some(BobDone)
    /\ Succeeds(OutcomeOf(3))
    /\ OutcomeOf(3).character = Null
    /\ character /= Null
    /\ character[1].goals = <<>>

\* C8 (Scenario A): start() sends exactly one request, with the bootstrap
\* prompt and session_id null; when it has succeeded with text g (and no
\* submit has been accepted yet) the transcript is the single turn
\* [assistant, g], the session is the returned session id (null if none),
\* the character is the returned character (null if none), the error is null
\* and busy is false.
C8_BootstrapSuccess ==
    /\ mounted <=> Len(net) >= 1
    /\ \A i \in 1..Len(net) :
           (net[i].op = "initializeStory") <=> (i = 1)
    /\ Len(net) >= 1
           => net[1].body = [prompt |-> BootPrompt, session_id |-> Null]
    /\ (Len(net) = 1 /\ Settled(1) /\ Succeeds(OutcomeOf(1)))
           => /\ messages = <<StoryMessage("assistant",
                                           OutcomeOf(1).generated_text[1])>>
              /\ sessionId = OutcomeOf(1).session_id
              /\ character = OutcomeOf(1).character
              /\ error = Null
              /\ ~isLoading

\* the bootstrap succeeded with "Forest.", session s1 and a character
C8_Witness ==
    /\ Len(net) = 1
    /\ Settled(1)
    /\ OutcomeOf(1).generated_text = Some(TextForest)
    /\ sessionId = Some("s1")
    /\ character = Some(BobSword)
    /\ event = "settle"

\* C9 (bootstrap failure): when the start() request has failed (rejected
\* fetch, non-2xx status, or 2xx without generated text) and no submit has
\* been accepted yet, the error is non-null, the transcript is empty, the
\* session and the character are null and busy is false.
C9_BootstrapFailure ==
    (Len(net) = 1 /\ Settled(1) /\ ~Succeeds(OutcomeOf(1)))
        => /\ error /= Null
           /\ messages = <<>>
           /\ sessionId = Null
           /\ character = Null
           /\ ~isLoading

\* the bootstrap got a 2xx response with a session and a character but no
\* generated text
C9_Witness ==
    /\ Len(net) = 1
    /\ Settled(1)
    /\ Ok(OutcomeOf(1).status)
    /\ ~OutcomeOf(1).rejected
    /\ OutcomeOf(1).generated_text = Null
    /\ OutcomeOf(1).session_id /= Null
    /\ error = Some("No generated text in response")
    /\ event = "settle"

\* C10 (Scenario C, blank input): a handleSubmit invoked with a text that is
\* empty after trimming, in any state, sends no request and leaves the
\* transcript, the busy flag, the error, the session, the character and the
\* input text unchanged.
C10_BlankInput ==
    [][Blank(inputText) /\ event' = "handleSubmit"
         => UNCHANGED <<stores, net, inputText>>]_vars

\* submit("   ") was attempted while idle with an error showing, and the
\* error is still there
C10_Witness ==
    /\ event = "handleSubmit"
    /\ inputText = <<" ", " ", " ">>
    /\ ~isLoading
    /\ error /= Null
    /\ Len(net) = 2

\* s is a prefix of t
IsPrefix(s, t) == Len(s) <= Len(t) /\ SubSeq(t, 1, Len(s)) = s

\* C11 (append-only transcript): across every transition (mount, submit,
\* success or failure completion) the previous transcript is a prefix of the
\* next one: no turn is mutated, reordered or removed and the length never
\* decreases.
C11_AppendOnly == [][IsPrefix(messages, messages')]_vars

\* the bootstrap's setMessages([...]) has run and two submits have appended
\* to what it stored
C11_Witness ==
    /\ Len(net) = 3
    /\ Pending = {}
    /\ Succeeds(OutcomeOf(1))
    /\ Len(messages) = 5
    /\ messages[1].content = OutcomeOf(1).generated_text[1]
    /\ ~Succeeds(OutcomeOf(3))

\* C12 (optimistic update): while the request of an accepted submit(t) is
\* outstanding, the last turn of the transcript is [user, t], and the request
\* carries prompt = t, the text of that turn, and the current session token.
C12_OptimisticUpdate ==
    \A i \in Pending :
        net[i].op = "handleSubmit"
            => /\ messages /= <<>>
               /\ messages[Len(messages)] =
                      StoryMessage("user", net[i].body.prompt)
               /\ messages = Append(net[i].before, messages[Len(messages)])
               /\ net[i].body.session_id = sessionId

\* submit(" go ") is outstanding with session s1; the turn and the prompt
\* both hold the text as typed
C12_Witness ==
    /\ Pending = {2}
    /\ net[2].body = [prompt |-> <<" ", "g", "o", " ">>,
                      session_id |-> Some("s1")]
    /\ messages[2] = StoryMessage("user", <<" ", "g", "o", " ">>)
    /\ isLoading

\* C13 (busy always cleared): provided every issued request settles, every
\* accepted start() or submit() leads to busy = false, whatever the outcome;
\* and an idle controller accepts a submit with non-blank text: it sends a
\* request.
C13_BusyCleared ==
    /\ isLoading ~> ~isLoading
    /\ [][(~isLoading /\ ~Blank(inputText) /\ event' = "handleSubmit")
            => (isLoading' /\ Len(net') = Len(net) + 1)]_vars

\* after a failed bootstrap and a failed submit the controller is idle
\* again, and a further submit has been accepted
C13_Witness ==
    /\ Len(net) = 3
    /\ ~Succeeds(OutcomeOf(1))
    /\ Settled(2)
    /\ ~Succeeds(OutcomeOf(2))
    /\ event = "handleSubmit"
    /\ 3 \in Pending

\* a 2xx response without generated text (absent, or the empty string, which
\* the code cannot tell apart)
Malformed(o) ==
    /\ ~o.rejected
    /\ o.status \in 200..299
    /\ (o.generated_text = Null \/ o.generated_text = Some(<<>>))

\* request i settles in this step
SettlesNow(i) == i \in Pending /\ net'[i].reply /= Null

\* C14 (malformed success is a failure): when a request settles with a 2xx
\* response lacking generated_text, the error becomes "No generated text in
\* response", busy is cleared, the transcript gets what a failed request
\* gets (nothing for the bootstrap, the apology turn for a submit) and no
\* turn with response text, and the session and the character stay as they
\* were, whatever the response carried.
C14_MalformedSuccess ==
    [][\A i \in 1..Len(net) :
          (SettlesNow(i) /\ Malformed(net'[i].reply[1]))
              => /\ error' = Some("No generated text in response")
                 /\ ~isLoading'
                 /\ messages' = IF net[i].op = "initializeStory"
                                THEN messages
                                ELSE Append(messages,
                                            StoryMessage("assistant", Apology))
                 /\ sessionId' = sessionId
                 /\ character' = character]_vars

\* a submit got a 2xx response with session s2 and character Rin but no
\* text; session s1 and the earlier character are still stored
C14_Witness ==
    /\ Len(net) = 2
    /\ Settled(2)
    /\ Malformed(OutcomeOf(2))
    /\ OutcomeOf(2).session_id = Some("s2")
    /\ OutcomeOf(2).character = Some(Rin)
    /\ sessionId = Some("s1")
    /\ character = Some(BobSword)
    /\ error = Some("No generated text in response")

\* C15 (no race with the bootstrap): from mount until the bootstrap request
\* settles busy is true and the bootstrap is the only request; a request is
\* sent after the first only when the bootstrap has settled; before mount no
\* text has been typed, so no submit can be accepted.
C15_NoBootstrapRace ==
    /\ [](~mounted => (inputText = <<>> /\ net = <<>>))
    /\ []((mounted /\ ~Settled(1)) => (isLoading /\ Len(net) = 1))
    /\ [][(Len(net) >= 1 /\ Len(net') > Len(net)) => Settled(1)]_vars

\* a non-blank submit was attempted while the bootstrap was outstanding and
\* nothing was sent
C15_Witness ==
    /\ mounted
    /\ Pending = {1}
    /\ event = "handleSubmit"
    /\ ~Blank(inputText)
    /\ messages = <<>>

\* C16 (submit never writes the session): a submit that settles, with
\* success or failure, leaves the stored session unchanged even when its
\* response carries a session id; the session changes only when the
\* bootstrap settles successfully.
C16_SubmitNeverWritesSession ==
    [][/\ \A i \in 2..Len(net) : SettlesNow(i) => sessionId' = sessionId
       /\ sessionId' /= sessionId
              => (SettlesNow(1) /\ Succeeds(net'[1].reply[1]))]_vars

\* the bootstrap supplied no session, a submit's successful response
\* carried one, and the stored session is still null
C16_Witness ==
    /\ Len(net) >= 2
    /\ Settled(1)
    /\ SuppliedSession(2)
    /\ sessionId = Null
    /\ Pending = {}

\* C17 (busy tracks the outstanding request): busy is true exactly when a
\* request is outstanding; and as long as the outstanding request does not
\* settle, busy stays true, no request is sent and no turn is appended.
C17_BusyTracksRequest ==
    /\ [](isLoading <=> Pending /= {})
    /\ [][(Pending /= {} /\ Pending' = Pending)
            => (isLoading' /\ net' = net /\ messages' = messages)]_vars

\* the second submit is outstanding and a further non-blank submit was
\* attempted in vain
C17_Witness ==
    /\ Pending = {3}
    /\ isLoading
    /\ event = "handleSubmit"
    /\ ~Blank(inputText)
    /\ Len(messages) >= 3

\* the submits accepted so far: each one appended exactly one user turn
AcceptedSubmits ==
    Cardinality({k \in 1..Len(messages) : messages[k].role = "user"})

\* C18 (one request per accepted action, no retries): the number of requests
\* ever sent is the number of start() invocations (one once mounted) plus
\* the number of accepted submits; a request is only ever sent by the mount
\* effect or by handleSubmit, one at a time, and a request that settles, with
\* whatever failure, sends none.
C18_OneRequestPerAction ==
    /\ [](Len(net) = (IF mounted THEN 1 ELSE 0) + AcceptedSubmits)
    /\ [][Len(net') /= Len(net)
            => /\ Len(net') = Len(net) + 1
               /\ event' \in {"mount", "handleSubmit"}
               /\ \A i \in 1..Len(net) : ~SettlesNow(i)]_vars

\* the bootstrap and two submits all failed, and exactly three requests
\* were sent
C18_Witness ==
    /\ Len(net) = 3
    /\ Pending = {}
    /\ \A i \in 1..3 : ~Succeeds(OutcomeOf(i))
    /\ AcceptedSubmits = 2

\* C19 (error slot lifecycle): whenever busy is true the error is null, and
\* whenever the controller is idle after mount the error is non-null exactly
\* when the most recently completed operation failed.
C19_ErrorLifecycle ==
    /\ isLoading => error = Null
    /\ ~mounted => error = Null
    /\ (mounted /\ ~isLoading)
           => (error /= Null <=> ~Succeeds(OutcomeOf(Len(net))))

\* a submit failed, the next one succeeded, and the error is gone
C19_Witness ==
    /\ Len(net) = 3
    /\ Pending = {}
    /\ ~Succeeds(OutcomeOf(2))
    /\ Succeeds(OutcomeOf(3))
    /\ error = Null
    /\ ~isLoading

\* s is `lead` assistant turns followed by (user, assistant) pairs
PairedAfter(s, lead) ==
    /\ Len(s) >= lead
    /\ (Len(s) - lead) % 2 = 0
    /\ \A k \in 1..Len(s) :
           s[k].role = IF k <= lead \/ (k - lead) % 2 = 0
                       THEN "assistant" ELSE "user"

\* 1 when the bootstrap has succeeded, else 0
LeadingTurns ==
    IF Len(net) >= 1 /\ Settled(1) /\ Succeeds(OutcomeOf(1)) THEN 1 ELSE 0

\* C20 (transcript shape): when idle, the transcript is one leading
\* assistant turn exactly when the bootstrap succeeded, followed by (user,
\* assistant) pairs; while a submit is outstanding it is such a sequence plus
\* one trailing user turn; while the bootstrap is outstanding it is empty.
C20_TranscriptShape ==
    /\ ~isLoading => PairedAfter(messages, LeadingTurns)
    /\ (isLoading /\ Len(net) >= 2)
           => /\ messages /= <<>>
              /\ messages[Len(messages)].role = "user"
              /\ PairedAfter(SubSeq(messages, 1, Len(messages) - 1),
                             LeadingTurns)
    /\ (isLoading /\ Len(net) = 1) => messages = <<>>

\* the bootstrap failed, so the transcript starts with a user turn: a failed
\* and a successful submit left two (user, assistant) pairs
C20_Witness ==
    /\ ~isLoading
    /\ Len(net) = 3
    /\ ~Succeeds(OutcomeOf(1))
    /\ ~Succeeds(OutcomeOf(2))
    /\ Succeeds(OutcomeOf(3))
    /\ Len(messages) = 4
    /\ messages[1].role = "user"

====
